---- MODULE Spec2Model ----
(***************************************************************************)
(* OAuth token lifecycle manager (common/auth.py) and BI report pipeline   *)
(* (common/report_service.py) of mcp_oracle_scm.                           *)
(*                                                                         *)
(* Every OracleAuth instance ("manager") keeps its own in-memory token,    *)
(* expiry and refresh token; all instances share the OS keychain entries   *)
(* of service "mcp_oracle", the loopback port 3009 and the class attribute *)
(* OAuthCallbackHandler.auth_code.  A step of the model is one access to   *)
(* shared state (one keyring call, one token-endpoint exchange, one poll   *)
(* of the callback loop) together with the local code that follows it.     *)
(***************************************************************************)
EXTENDS Integers, Sequences, FiniteSets, TLC

\* ---------------------------------------------------------------- bounds
\* seconds that pass in one step of the model clock (time.sleep(1) returns
\* after at least one second; the clock is coarse to keep the model finite)
TimeStep == 100
\* the clock stops here
MaxTime == 500
\* access tokens the token endpoint issues in one run
MaxIssued == 2
\* calls of get_connection and close_connection in one run
MaxOps == 2
\* download requests of one get_report_data invocation: the server ends the
\* report (or fails) at the latest in its answer to request number MaxDownloads
MaxDownloads == 3

\* ------------------------------------------------------ program constants
\* the "5 minute buffer" of get_connection
Margin == 300
\* timeout of the callback wait in start_auth_server
AuthTimeout == 300
\* Python's None (and every falsy value a token or expiry can take)
NONE == 0
\* chunk_size of get_report_data
ChunkSize == 5000
\* the offset that ends the download loop
EndOfData == -1
\* the HTTP status _make_soap_request accepts
HttpOk == 200

\* OracleAuth instances of the process: OracleReportService.auth and the
\* get_oracle_auth() singleton
Mgrs == {"report", "singleton"}

\* keyring entry names under service "mcp_oracle"
K_TOKEN == "oauth_token"
K_EXPIRY == "oauth_token_expiry"
K_REFRESH == "oauth_refresh_token"

\* expires_in values of a token-endpoint response (seconds); NONE: no field
ExpiresIn == {200, 400}
\* authorization codes the browser redirect can carry
Codes == {1, 2}
\* the GET requests the listener can receive: the values of the code parameters
\* of the query string in their order, NONE for a blank value ("code=")
GetRequests == {<<>>, <<NONE>>, <<1>>, <<2>>, <<NONE, 2>>, <<2, 1>>}
\* send_response(200) and send_response(400) of do_GET
CallbackOk == 200
CallbackFailed == 400

VARIABLES
    now,            \* time.time()
    kc,             \* the keychain: a function from the entries present to their strings
    access_token,   \* [Mgrs -> token], self.access_token
    token_expiry,   \* [Mgrs -> time], self.token_expiry
    refresh_token,  \* [Mgrs -> token], self.refresh_token
    pc,             \* [Mgrs -> location]
    ctx,            \* [Mgrs -> the function that called the keychain routine in progress]
    lv,             \* [Mgrs -> locals of the routine in progress]
    listener,       \* the manager whose HTTPServer holds 127.0.0.1:3009, or "free"
    auth_code,      \* OAuthCallbackHandler.auth_code
    issued,         \* access tokens issued by the token endpoint so far
    ops,            \* operations called so far
    budget,         \* operations that may be called in this run
    h,              \* [Mgrs -> record of the current or last operation]; ret is what the
                    \* caller of get_connection receives, the rest is observation only
    rpc,            \* position of the get_report_data invocation
    file_id,        \* get_report_data: file_id
    begin_idx,      \* get_report_data: begin_idx
    first_chunk,    \* get_report_data: first_chunk
    total_rows,     \* get_report_data: total_rows
    offset,         \* get_report_data: offset of the last download response
    fs,             \* the downloads directory: a function from the files present to their text
    requests,       \* the SOAP requests sent by the invocation, in order (observation only)
    served,         \* the bytes the server put into its download responses (observation only)
    continued,      \* download responses processed whose offset was not -1 (observation only)
    raised,         \* the exception get_report_data raised, NoError if none
    calls,          \* get_connection calls made by the invocation (observation only)
    partial_file,   \* the partial_file that get_report_data's except clause logged
    consumer,       \* the service routine that waits for get_connection, or "none"
    sent,           \* the REST requests the service routines sent, in order
    reported,       \* the exceptions the service routines raised to their callers, in order
    answered,       \* the status of the last response of the listener that is serving,
                    \* NONE when it has sent none
    runs,           \* [Invs -> locals of a get_report_data coroutine run beside another]
    files           \* the downloads directory those coroutines write to

\* the state of the REST service routines that consume a bearer token
cons == <<consumer, sent, reported>>

\* the state of the get_report_data invocation, and of all token consumers
pipeline == <<rpc, file_id, begin_idx, first_chunk, total_rows, offset, fs,
              requests, served, continued, raised, calls, partial_file>>
\* the state of two get_report_data coroutines of one event loop
two == <<runs, files>>
rep == <<pipeline, cons, answered, two>>

vars == <<now, kc, access_token, token_expiry, refresh_token, pc, ctx, lv,
          listener, auth_code, issued, ops, budget, h, rep>>

\* ------------------------------------------------------------ conversions
\* str(expiry_time) as save_to_keychain writes it
Str(x) == IF x = NONE THEN <<"None">> ELSE <<"float", x>>
\* float(expiry_str) succeeds on the text of a number only
FloatOk(s) == Len(s) = 2
Float(s) == s[2]

\* keyring.get_password: None when the entry is absent
GetPassword(k) == IF k \in DOMAIN kc THEN kc[k] ELSE NONE
\* the expiry entry is read as a string; "" stands for an absent entry
GetExpiryStr == IF K_EXPIRY \in DOMAIN kc THEN kc[K_EXPIRY] ELSE <<>>
\* keyring.set_password
SetPassword(k, v) == [x \in DOMAIN kc \cup {k} |-> IF x = k THEN v ELSE kc[x]]
\* keyring.delete_password of an entry that is present
DeletePassword(k) == [x \in DOMAIN kc \ {k} |-> kc[x]]

\* the keychain with no entry
EmptyKeychain == [x \in {} |-> NONE]

\* exceptions of the report pipeline: the class, the message text, and what the
\* message interpolates: an HTTP status, a response body, an output path ("" and
\* NONE where the raise statement interpolates none)
NoError == [type |-> "", msg |-> "", status |-> NONE, body |-> "", path |-> ""]

\* the get_report_data coroutines that one event loop runs side by side
Invs == {1, 2}

\* locals of a get_report_data coroutine that has not begun; sent and got are
\* observation only: its download requests, and the bytes of the chunks the
\* server answered them with
NoRun == [at |-> "idle", output_file |-> <<>>, file_id |-> NONE, begin_idx |-> 0,
          first_chunk |-> TRUE, total_rows |-> 0, sent |-> <<>>, got |-> <<>>]

\* locals of the frames in progress: token, expiry_str of load_from_keychain;
\* refresh_token of refresh_access_token; start_time, auth_code of
\* start_auth_server.  whole is observation only: the contents the keychain had,
\* since the load in progress began, at the moments when no save or clear was
\* between its first and its last keyring call (empty when the load began at
\* no such moment)
NoLocals == [token |-> NONE, expiry_str |-> <<>>, refresh_token |-> NONE,
             start_time |-> 0, auth_code |-> NONE, whole |-> {}]

\* what is observed of a manager's current or last operation:
\*   op     "get_connection" or "close_connection"
\*   state  "running", "returned" (normal return) or "raised"
\*   ret    the value returned
\*   path   the source that yielded the token ("memory", "store", "refresh", "auth")
\*   tried  the sources consulted so far, in order
\*   refresh  "failed" once the refresh request of this call has failed
\*   err    the exception the full authorization flow raised
\*   interfered  another manager wrote the keychain while this one was clearing it
\*   invalidated  the number of tokens the endpoint had issued when this
\*                close_connection returned (tokens are numbered as issued)
NoHistory == [op |-> "none", state |-> "never", ret |-> NONE, path |-> "none",
              tried |-> <<>>, refresh |-> "none", err |-> "none",
              interfered |-> FALSE, invalidated |-> 0]

InitState ==
    /\ now = 0
    /\ kc = EmptyKeychain
    /\ access_token = [m \in Mgrs |-> NONE]
    /\ token_expiry = [m \in Mgrs |-> NONE]
    /\ refresh_token = [m \in Mgrs |-> NONE]
    /\ pc = [m \in Mgrs |-> "idle"]
    /\ ctx = [m \in Mgrs |-> "none"]
    /\ lv = [m \in Mgrs |-> NoLocals]
    /\ listener = "free"
    /\ auth_code = NONE
    /\ issued = 0
    /\ ops = 0
    /\ h = [m \in Mgrs |-> NoHistory]
    /\ rpc = "idle"
    /\ file_id = NONE
    /\ begin_idx = 0
    /\ first_chunk = TRUE
    /\ total_rows = 0
    /\ offset = 0
    /\ fs = [x \in {} |-> <<>>]
    /\ requests = <<>>
    /\ served = <<>>
    /\ continued = 0
    /\ raised = NoError
    /\ calls = 0
    /\ partial_file = ""
    /\ consumer = "none"
    /\ sent = <<>>
    /\ reported = <<>>
    /\ answered = NONE
    /\ runs = [i \in Invs |-> NoRun]
    /\ files = [x \in {} |-> <<>>]

Init == InitState /\ budget = MaxOps

\* ------------------------------------------------------------------ helpers
mem == <<access_token, token_expiry, refresh_token>>
net == <<listener, auth_code, issued>>

LoadLocs == {"ld_tok", "ld_exp", "ld_rt"}
SaveLocs == {"sv_tok", "sv_exp", "sv_rt"}
ClearLocs == {"cl_tok", "cl_exp", "cl_rt"}
AuthLocs == {"auth_bind", "auth_reset", "auth_wait", "gt_post"}

\* the frame of the operation in progress is left
Finish(m) ==
    /\ pc' = [pc EXCEPT ![m] = "idle"]
    /\ ctx' = [ctx EXCEPT ![m] = "none"]
    /\ lv' = [lv EXCEPT ![m] = NoLocals]

\* positions between the first and the last keyring call of save_to_keychain
\* and clear_keychain
MidWrite == {"sv_exp", "sv_rt", "cl_exp", "cl_rt"}

\* no save or clear has written a part of its entries only
Quiet == \A x \in Mgrs : pc[x] \notin MidWrite

\* the locals l after a save or clear has ended: every load in progress that
\* began at a quiet moment has seen one more whole content of the keychain
Observe(l) ==
    [x \in Mgrs |->
        IF pc[x] \in {"ld_exp", "ld_rt"} /\ l[x].whole # {} /\ Quiet'
        THEN [l[x] EXCEPT !.whole = @ \cup {kc'}]
        ELSE l[x]]

\* the frame of save_to_keychain or clear_keychain and of its caller is left
FinishWrite(m) ==
    /\ pc' = [pc EXCEPT ![m] = "idle"]
    /\ ctx' = [ctx EXCEPT ![m] = "none"]
    /\ lv' = Observe([lv EXCEPT ![m] = NoLocals])

\* the history after a keychain write by m: m's own record becomes hm, and every
\* other manager that is inside clear_keychain is marked as interfered with
Touch(m, hm) ==
    [x \in Mgrs |-> IF x = m THEN hm
                    ELSE IF pc[x] \in ClearLocs THEN [h[x] EXCEPT !.interfered = TRUE]
                    ELSE h[x]]

\* ----------------------------------------------------------- get_connection
\* mutant of MemValid: the comparison with the expiry is inverted
MemValidInverted(m) ==
    /\ access_token[m] # NONE
    /\ token_expiry[m] # NONE
    /\ now > token_expiry[m] - Margin

\* "if self.access_token and self.token_expiry: if time.time() < self.token_expiry - 300"
MemValid(m) ==
    /\ access_token[m] # NONE
    /\ token_expiry[m] # NONE
    /\ now < token_expiry[m] - Margin

\* mutant of StoreValid: the keychain expiry is compared without the margin
StoreValidNoMargin(token, expiry) ==
    /\ token # NONE
    /\ expiry # NONE
    /\ now < expiry

\* "if token and expiry: ... if time.time() < expiry_float - 300"
StoreValid(token, expiry) ==
    /\ token # NONE
    /\ expiry # NONE
    /\ now < expiry - Margin

\* what load_from_keychain returns for the three strings read: float() of a text
\* that is no number raises ValueError, and the except clause returns three Nones
Loaded(token, expiry_str, refresh) ==
    IF expiry_str # <<>> /\ ~FloatOk(expiry_str)
    THEN [token |-> NONE, expiry |-> NONE, refresh_token |-> NONE]
    ELSE [token |-> token,
          expiry |-> IF expiry_str # <<>> THEN Float(expiry_str) ELSE NONE,
          refresh_token |-> refresh]

\* get_connection begins: the in-memory token is returned when it is valid,
\* otherwise load_from_keychain begins
GetConnectionCall(m) ==
    /\ pc[m] = "idle"
    /\ IF MemValid(m)
       THEN /\ h' = [h EXCEPT ![m] = [NoHistory EXCEPT
                        !.op = "get_connection", !.state = "returned",
                        !.ret = access_token[m], !.path = "memory",
                        !.tried = <<"memory">>]]
            /\ UNCHANGED <<pc, ctx, lv>>
       ELSE /\ h' = [h EXCEPT ![m] = [NoHistory EXCEPT
                        !.op = "get_connection", !.state = "running",
                        !.tried = <<"memory", "store">>]]
            /\ pc' = [pc EXCEPT ![m] = "ld_tok"]
            /\ ctx' = [ctx EXCEPT ![m] = "get_connection"]
            /\ UNCHANGED lv
    /\ UNCHANGED <<now, kc, mem, net>>

\* a consumer other than the report pipeline calls get_connection on m
GetConnection(m) ==
    /\ GetConnectionCall(m)
    /\ ops < budget
    /\ ops' = ops + 1
    /\ UNCHANGED <<budget, rep>>

\* ------------------------------------------------------- load_from_keychain
\* keyring.get_password("mcp_oracle", "oauth_token")
LoadToken(m) ==
    /\ pc[m] = "ld_tok"
    /\ lv' = [lv EXCEPT ![m].token = GetPassword(K_TOKEN),
                         ![m].whole = IF Quiet THEN {kc} ELSE {}]
    /\ pc' = [pc EXCEPT ![m] = "ld_exp"]
    /\ UNCHANGED <<now, kc, mem, net, ctx, h, ops, budget, rep>>

\* keyring.get_password("mcp_oracle", "oauth_token_expiry")
LoadExpiryStr(m) ==
    /\ pc[m] = "ld_exp"
    /\ lv' = [lv EXCEPT ![m].expiry_str = GetExpiryStr]
    /\ pc' = [pc EXCEPT ![m] = "ld_rt"]
    /\ UNCHANGED <<now, kc, mem, net, ctx, h, ops, budget, rep>>

\* refresh_access_token begins: the refresh token of the instance, else the
\* keychain's
RefreshStart(m) ==
    /\ h' = [h EXCEPT ![m].tried = Append(@, "refresh")]
    /\ IF refresh_token[m] # NONE
       THEN /\ pc' = [pc EXCEPT ![m] = "rf_post"]
            /\ ctx' = [ctx EXCEPT ![m] = "refresh"]
            /\ lv' = [lv EXCEPT ![m] = [NoLocals EXCEPT !.refresh_token = refresh_token[m]]]
       ELSE /\ pc' = [pc EXCEPT ![m] = "ld_tok"]
            /\ ctx' = [ctx EXCEPT ![m] = "refresh"]
            /\ lv' = [lv EXCEPT ![m] = NoLocals]

\* the full authorization flow begins
AuthStart(m) ==
    /\ h' = [h EXCEPT ![m].tried = Append(@, "auth")]
    /\ pc' = [pc EXCEPT ![m] = "auth_bind"]
    /\ ctx' = [ctx EXCEPT ![m] = "none"]
    /\ lv' = [lv EXCEPT ![m] = NoLocals]

\* mutant of StoreCheck: a valid keychain token is returned without being
\* promoted to the instance
StoreCheckNoPromote(m, r) ==
    IF StoreValid(r.token, r.expiry)
    THEN /\ h' = [h EXCEPT ![m].state = "returned", ![m].ret = r.token,
                           ![m].path = "store"]
         /\ Finish(m)
         /\ UNCHANGED mem
    ELSE /\ RefreshStart(m)
         /\ UNCHANGED mem

\* get_connection after load_from_keychain returned r: a valid keychain token is
\* promoted to the instance and returned, otherwise refresh_access_token is called
StoreCheck(m, r) ==
    IF StoreValid(r.token, r.expiry)
    THEN /\ access_token' = [access_token EXCEPT ![m] = r.token]
         /\ token_expiry' = [token_expiry EXCEPT ![m] = r.expiry]
         /\ h' = [h EXCEPT ![m].state = "returned", ![m].ret = r.token,
                           ![m].path = "store"]
         /\ Finish(m)
         /\ UNCHANGED refresh_token
    ELSE /\ RefreshStart(m)
         /\ UNCHANGED mem

\* refresh_access_token after load_from_keychain returned r: without a refresh
\* token it returns None and get_connection goes on to the full flow
RefreshLoaded(m, r) ==
    /\ IF r.refresh_token = NONE
       THEN AuthStart(m)
       ELSE /\ pc' = [pc EXCEPT ![m] = "rf_post"]
            /\ lv' = [lv EXCEPT ![m] = [NoLocals EXCEPT !.refresh_token = r.refresh_token]]
            /\ UNCHANGED <<ctx, h>>
    /\ UNCHANGED mem

\* keyring.get_password("mcp_oracle", "oauth_refresh_token"), the conversion of
\* the expiry and the caller's use of the result
LoadRefresh(m) ==
    /\ pc[m] = "ld_rt"
    /\ LET r == Loaded(lv[m].token, lv[m].expiry_str, GetPassword(K_REFRESH))
       IN  IF ctx[m] = "get_connection" THEN StoreCheck(m, r) ELSE RefreshLoaded(m, r)
    /\ UNCHANGED <<now, kc, net, ops, budget, rep>>

\* ------------------------------------------------------------ token endpoint
\* what a POST to the token endpoint can yield: an error (HTTP error status or
\* failed request), or token data with a new access_token, with or without
\* expires_in and with or without a refresh_token
TokenResponses ==
    {[ok |-> FALSE, expires_in |-> NONE, has_refresh |-> FALSE]}
    \cup {[ok |-> TRUE, expires_in |-> e, has_refresh |-> r] :
             e \in ExpiresIn \cup {NONE}, r \in BOOLEAN}

\* "if 'expires_in' in token_data: self.token_expiry = time.time() + token_data['expires_in']"
NewExpiry(m, resp) ==
    IF resp.expires_in # NONE THEN now + resp.expires_in ELSE token_expiry[m]

\* the token data of a successful response is taken into the instance; the
\* refresh_token argument of save_to_keychain is kept in the locals
TakeTokenData(m, resp) ==
    /\ issued < MaxIssued
    /\ issued' = issued + 1
    /\ access_token' = [access_token EXCEPT ![m] = issued + 1]
    /\ token_expiry' = [token_expiry EXCEPT ![m] = NewExpiry(m, resp)]
    /\ refresh_token' = [refresh_token EXCEPT ![m] =
                            IF resp.has_refresh THEN issued + 1 ELSE @]
    /\ lv' = [lv EXCEPT ![m] = [NoLocals EXCEPT !.refresh_token =
                            IF resp.has_refresh THEN issued + 1 ELSE NONE]]
    /\ pc' = [pc EXCEPT ![m] = "sv_tok"]

\* refresh_access_token: the POST with grant_type refresh_token and what follows
\* it up to the first keyring call
RefreshPost(m) ==
    /\ pc[m] = "rf_post"
    /\ \E resp \in TokenResponses :
          IF resp.ok
          THEN /\ TakeTokenData(m, resp)
               /\ h' = [h EXCEPT ![m].path = "refresh"]
               /\ UNCHANGED ctx
          ELSE /\ access_token' = [access_token EXCEPT ![m] = NONE]
               /\ refresh_token' = [refresh_token EXCEPT ![m] = NONE]
               /\ token_expiry' = [token_expiry EXCEPT ![m] = NONE]
               /\ h' = [h EXCEPT ![m].refresh = "failed"]
               /\ pc' = [pc EXCEPT ![m] = "cl_tok"]
               /\ lv' = [lv EXCEPT ![m] = NoLocals]
               /\ UNCHANGED <<ctx, issued>>
    /\ UNCHANGED <<now, kc, listener, auth_code, ops, budget, rep>>

\* --------------------------------------------------------- save_to_keychain
\* save_to_keychain is left; refresh_access_token returns self.access_token and
\* get_token's caller returns token_data['access_token']
SaveDone(m) ==
    /\ FinishWrite(m)
    /\ h' = Touch(m, [h[m] EXCEPT !.state = "returned", !.ret = access_token[m]])

\* keyring.set_password("mcp_oracle", "oauth_token", token)
SaveToken(m) ==
    /\ pc[m] = "sv_tok"
    /\ kc' = SetPassword(K_TOKEN, access_token[m])
    /\ pc' = [pc EXCEPT ![m] = "sv_exp"]
    /\ h' = Touch(m, h[m])
    /\ UNCHANGED <<now, mem, net, ctx, lv, ops, budget, rep>>

\* keyring.set_password("mcp_oracle", "oauth_token_expiry", str(expiry_time));
\* "if refresh_token:" decides whether a third entry is written
SaveExpiry(m) ==
    /\ pc[m] = "sv_exp"
    /\ kc' = SetPassword(K_EXPIRY, Str(token_expiry[m]))
    /\ IF lv[m].refresh_token # NONE
       THEN /\ pc' = [pc EXCEPT ![m] = "sv_rt"]
            /\ h' = Touch(m, h[m])
            /\ UNCHANGED <<ctx, lv>>
       ELSE SaveDone(m)
    /\ UNCHANGED <<now, mem, net, ops, budget, rep>>

\* keyring.set_password("mcp_oracle", "oauth_refresh_token", refresh_token)
SaveRefresh(m) ==
    /\ pc[m] = "sv_rt"
    /\ kc' = SetPassword(K_REFRESH, lv[m].refresh_token)
    /\ SaveDone(m)
    /\ UNCHANGED <<now, mem, net, ops, budget, rep>>

\* ----------------------------------------------------------- clear_keychain
\* mutant of ClearDone: after a failed refresh get_connection returns None
\* instead of going on to the full flow
ClearDoneReturns(m, wrote) ==
    LET hm == [h[m] EXCEPT !.state = "returned",
                           !.invalidated = IF ctx[m] = "close" THEN issued ELSE @]
    IN  /\ h' = IF wrote THEN Touch(m, hm) ELSE [h EXCEPT ![m] = hm]
        /\ FinishWrite(m)

\* clear_keychain is left, by its last statement or by its except clause: after
\* a failed refresh get_connection goes on to the full flow, close_connection
\* returns
ClearDone(m, wrote) ==
    LET hm == IF ctx[m] = "refresh"
              THEN [h[m] EXCEPT !.tried = Append(@, "auth")]
              ELSE [h[m] EXCEPT !.state = "returned", !.invalidated = issued]
    IN  /\ h' = IF wrote THEN Touch(m, hm) ELSE [h EXCEPT ![m] = hm]
        /\ IF ctx[m] = "refresh"
           THEN /\ pc' = [pc EXCEPT ![m] = "auth_bind"]
                /\ ctx' = [ctx EXCEPT ![m] = "none"]
                /\ lv' = Observe([lv EXCEPT ![m] = NoLocals])
           ELSE FinishWrite(m)

\* one keyring.delete_password(k) inside the try block: an entry that is present
\* is deleted and the next statement follows (after the last one the function is
\* left); for an absent entry keyring raises PasswordDeleteError, the except
\* clause logs it and the function is left with the later entries untouched
DeleteStep(m, k, next) ==
    IF k \in DOMAIN kc
    THEN /\ kc' = DeletePassword(k)
         /\ IF next = "done"
            THEN ClearDone(m, TRUE)
            ELSE /\ pc' = [pc EXCEPT ![m] = next]
                 /\ h' = Touch(m, h[m])
                 /\ UNCHANGED <<ctx, lv>>
    ELSE /\ kc' = kc
         /\ ClearDone(m, FALSE)

\* keyring.delete_password("mcp_oracle", "oauth_token")
ClearToken(m) ==
    /\ pc[m] = "cl_tok"
    /\ DeleteStep(m, K_TOKEN, "cl_exp")
    /\ UNCHANGED <<now, mem, net, ops, budget, rep>>

\* keyring.delete_password("mcp_oracle", "oauth_token_expiry")
ClearExpiry(m) ==
    /\ pc[m] = "cl_exp"
    /\ DeleteStep(m, K_EXPIRY, "cl_rt")
    /\ UNCHANGED <<now, mem, net, ops, budget, rep>>

\* keyring.delete_password("mcp_oracle", "oauth_refresh_token")
ClearRefresh(m) ==
    /\ pc[m] = "cl_rt"
    /\ DeleteStep(m, K_REFRESH, "done")
    /\ UNCHANGED <<now, mem, net, ops, budget, rep>>

\* --------------------------------------------------------- close_connection
\* close_connection: the instance's token state is reset, clear_keychain begins
CloseConnection(m) ==
    /\ pc[m] = "idle"
    /\ access_token' = [access_token EXCEPT ![m] = NONE]
    /\ token_expiry' = [token_expiry EXCEPT ![m] = NONE]
    /\ refresh_token' = [refresh_token EXCEPT ![m] = NONE]
    /\ pc' = [pc EXCEPT ![m] = "cl_tok"]
    /\ ctx' = [ctx EXCEPT ![m] = "close"]
    /\ h' = [h EXCEPT ![m] = [NoHistory EXCEPT !.op = "close_connection",
                                               !.state = "running"]]
    /\ ops < budget
    /\ ops' = ops + 1
    /\ UNCHANGED <<budget, rep>>
    /\ UNCHANGED <<now, kc, net, lv>>

\* ------------------------------------------------------ full authorization
\* mutant of AuthFailed: the error of the full flow is re-raised
AuthFailedReraise(m, e) ==
    /\ Finish(m)
    /\ h' = [h EXCEPT ![m].state = "raised", ![m].ret = NONE, ![m].err = e]

\* get_connection's "except Exception as e: ... return None" around the full
\* flow: the error e raised by start_auth_server or get_token ends the call
AuthFailed(m, e) ==
    /\ Finish(m)
    /\ h' = [h EXCEPT ![m].state = "returned", ![m].ret = NONE, ![m].err = e]

\* mutant of PortHeld: an instance can bind the port again over its own listener
PortHeldByOther(m) == listener \notin {"free", m}

\* the port 3009 has a listening socket, of whichever instance
PortHeld(m) == listener # "free"

\* HTTPServer(('127.0.0.1', 3009), ...): binding a port that is held raises
\* OSError; otherwise the serving thread is started
AuthBind(m) ==
    /\ pc[m] = "auth_bind"
    /\ IF PortHeld(m)
       THEN /\ AuthFailed(m, "bind")
            /\ UNCHANGED listener
       ELSE /\ listener' = m
            /\ pc' = [pc EXCEPT ![m] = "auth_reset"]
            /\ UNCHANGED <<ctx, lv, h>>
    /\ UNCHANGED <<now, kc, mem, auth_code, issued, ops, budget, rep>>

\* mutant of AuthReset: the class attribute keeps the code of an earlier session
AuthResetKeeps(m) ==
    /\ pc[m] = "auth_reset"
    /\ auth_code' = auth_code
    /\ \E opened \in BOOLEAN :
          IF opened
          THEN /\ lv' = [lv EXCEPT ![m].start_time = now]
               /\ pc' = [pc EXCEPT ![m] = "auth_wait"]
               /\ UNCHANGED <<ctx, h>>
          ELSE AuthFailed(m, "browser")
    /\ UNCHANGED <<now, kc, mem, listener, issued, ops, budget, rep>>

\* "OAuthCallbackHandler.auth_code = None", the PKCE pair, the URL, the browser,
\* and "start_time = time.time()".  A statement between the reset and the wait
\* can raise (urlencode, Logger.log, webbrowser.open): the except clause of
\* start_auth_server logs the error and raises it again, and the serving thread
\* goes on
AuthReset(m) ==
    /\ pc[m] = "auth_reset"
    /\ auth_code' = NONE
    /\ \E opened \in BOOLEAN :
          IF opened
          THEN /\ lv' = [lv EXCEPT ![m].start_time = now]
               /\ pc' = [pc EXCEPT ![m] = "auth_wait"]
               /\ UNCHANGED <<ctx, h>>
          ELSE AuthFailed(m, "browser")
    /\ UNCHANGED <<now, kc, mem, listener, issued, ops, budget, rep>>

\* parse_qs(...)['code'] for the request q: parse_qs (keep_blank_values is
\* off) drops the parameters whose value is blank, and a name all of whose
\* values were dropped is no key of the result
ParseQs(q) == SelectSeq(q, LAMBDA v : v # NONE)

\* mutant of CodeFound: the first code parameter must not be blank
CodeFoundFirst(q) == q # <<>> /\ Head(q) # NONE

\* "if 'code' in query_components"
CodeFound(q) == ParseQs(q) # <<>>

\* OAuthCallbackHandler.do_GET on the serving thread: when the parsed query has
\* a code, its first value is stored and 200 sent; otherwise 400 is sent and
\* nothing stored
DoGet(q) ==
    /\ listener # "free"
    /\ IF CodeFound(q)
       THEN /\ auth_code' = Head(ParseQs(q))
            /\ answered' = CallbackOk
       ELSE /\ auth_code' = auth_code
            /\ answered' = CallbackFailed
    /\ UNCHANGED <<now, kc, mem, listener, issued, pc, ctx, lv, h, ops, budget,
                   pipeline, cons, two>>

\* mutant of WaitExpired: the ceiling is passed one sleep later
WaitExpiredLate(m) == now - lv[m].start_time > AuthTimeout + TimeStep

\* "if time.time() - start_time > timeout"
WaitExpired(m) == now - lv[m].start_time > AuthTimeout

\* one turn of "while OAuthCallbackHandler.auth_code is None": a captured code
\* ends the wait (server.shutdown(), return); after more than 300 seconds the
\* server is shut down and TimeoutError raised; otherwise time.sleep(1)
Poll(m) ==
    /\ pc[m] = "auth_wait"
    /\ IF auth_code # NONE
       THEN /\ lv' = [lv EXCEPT ![m].auth_code = auth_code]
            /\ listener' = "free"
            /\ answered' = NONE
            /\ pc' = [pc EXCEPT ![m] = "gt_post"]
            /\ UNCHANGED <<now, ctx, h>>
       ELSE IF WaitExpired(m)
       THEN /\ listener' = "free"
            /\ answered' = NONE
            /\ AuthFailed(m, "timeout")
            /\ UNCHANGED now
       ELSE /\ now + TimeStep <= MaxTime
            /\ now' = now + TimeStep
            /\ UNCHANGED <<listener, answered, pc, ctx, lv, h>>
    /\ UNCHANGED <<kc, mem, auth_code, issued, ops, budget, pipeline, cons,
                   two>>

\* get_token: the POST with grant_type authorization_code and what follows it up
\* to the first keyring call; a RequestException is re-raised
GetTokenPost(m) ==
    /\ pc[m] = "gt_post"
    /\ \E resp \in TokenResponses :
          IF resp.ok
          THEN /\ TakeTokenData(m, resp)
               /\ ctx' = [ctx EXCEPT ![m] = "get_token"]
               /\ h' = [h EXCEPT ![m].path = "auth"]
          ELSE /\ AuthFailed(m, "http")
               /\ UNCHANGED <<mem, issued>>
    /\ UNCHANGED <<now, kc, listener, auth_code, ops, budget, rep>>

\* --------------------------------------------------------------------- time
\* time passes between operations (inside one, the clock is read as the
\* callback wait sleeps)
Tick ==
    /\ \A m \in Mgrs : pc[m] = "idle"
    /\ now + TimeStep <= MaxTime
    /\ now' = now + TimeStep
    /\ UNCHANGED <<kc, mem, net, pc, ctx, lv, h, ops, budget, rep>>

Next ==
    \/ \E m \in Mgrs :
          \/ GetConnection(m)
          \/ LoadToken(m)
          \/ LoadExpiryStr(m)
          \/ LoadRefresh(m)
          \/ RefreshPost(m)
          \/ SaveToken(m)
          \/ SaveExpiry(m)
          \/ SaveRefresh(m)
          \/ ClearToken(m)
          \/ ClearExpiry(m)
          \/ ClearRefresh(m)
          \/ CloseConnection(m)
          \/ AuthBind(m)
          \/ AuthReset(m)
          \/ Poll(m)
          \/ GetTokenPost(m)
    \/ \E q \in GetRequests : DoGet(q)
    \/ Tick

Spec == Init /\ [][Next]_vars

\* the same program with one more operation in the run
InitLong == InitState /\ budget = MaxOps + 1
SpecLong == InitLong /\ [][Next]_vars

\* ------------------------------------------------------------ report codecs
\* base64 text is a sequence of sextets 0..63; Pad stands for "="
Pad == 64

\* base64 of at most two bytes, as the server builds reportDataChunk; the text
\* of an empty element is None, written <<>>
B64Encode(bs) ==
    CASE Len(bs) = 0 -> <<>>
      [] Len(bs) = 1 -> <<bs[1] \div 4, (bs[1] % 4) * 16, Pad, Pad>>
      [] Len(bs) = 2 -> <<bs[1] \div 4, (bs[1] % 4) * 16 + bs[2] \div 16,
                          (bs[2] % 16) * 4, Pad>>

\* the bytes of one group of four sextets
B64Quad(q) ==
    IF q[3] = Pad
    THEN <<q[1] * 4 + q[2] \div 16>>
    ELSE IF q[4] = Pad
    THEN <<q[1] * 4 + q[2] \div 16, (q[2] % 16) * 16 + q[3] \div 4>>
    ELSE <<q[1] * 4 + q[2] \div 16, (q[2] % 16) * 16 + q[3] \div 4,
           (q[3] % 4) * 64 + q[4]>>

RECURSIVE B64Decode(_)
\* base64.b64decode(chunk_data)
B64Decode(c) ==
    IF Len(c) < 4 THEN <<>>
    ELSE B64Quad(SubSeq(c, 1, 4)) \o B64Decode(SubSeq(c, 5, Len(c)))

RECURSIVE Utf8Ok(_)
\* bytes.decode('utf-8') succeeds: one-byte and two-byte sequences (the payloads
\* hold no byte of a longer one)
Utf8Ok(bs) ==
    IF bs = <<>> THEN TRUE
    ELSE IF bs[1] < 128 THEN Utf8Ok(Tail(bs))
    ELSE IF bs[1] \in 194..223 /\ Len(bs) >= 2 /\ bs[2] \in 128..191
    THEN Utf8Ok(Tail(Tail(bs)))
    ELSE FALSE

RECURSIVE Utf8Decode(_)
\* bytes.decode('utf-8'): the code points of the text
Utf8Decode(bs) ==
    IF bs = <<>> THEN <<>>
    ELSE IF bs[1] < 128 THEN <<bs[1]>> \o Utf8Decode(Tail(bs))
    ELSE <<(bs[1] - 192) * 64 + (bs[2] - 128)>> \o Utf8Decode(Tail(Tail(bs)))

\* the characters at which str.splitlines breaks a line
LineBreaks == {10, 11, 12, 13, 28, 29, 30, 133}
\* the characters str.strip removes
Blanks == LineBreaks \cup {9, 32}

RECURSIVE Rows(_, _)
\* lines of t that are not blank, given whether the line in progress has shown a
\* character that is not blank
Rows(t, seen) ==
    IF t = <<>> THEN (IF seen THEN 1 ELSE 0)
    ELSE IF Head(t) \in LineBreaks
    THEN (IF seen THEN 1 ELSE 0) + Rows(Tail(t), FALSE)
    ELSE Rows(Tail(t), seen \/ Head(t) \notin Blanks)

\* sum(1 for line in decoded_data.splitlines() if line.strip())
ChunkLines(t) == Rows(t, FALSE)

\* --------------------------------------------------------- report pipeline
\* the OracleAuth instance of the report service
ReportAuth == "report"
\* the path _generate_output_filename returns (timestamp and uuid make it new)
OutputFile == "output_file"
\* report file ids the server hands out
FileIds == {7}
\* byte strings the server can put into one chunk: nothing, "a", "a\n", and the
\* first byte of a two-byte character on its own
Payloads == {<<>>, <<97>>, <<97, 10>>, <<195>>}
\* offsets the server can report
Offsets == {EndOfData, 0, ChunkSize}

\* HTTP statuses of a failed SOAP call
ErrorStatuses == {404, 500}

\* answers to runReport: an HTTP error, a body without a reportFileID element,
\* or a reportFileID element with its text (None for an empty element)
RunResponses ==
    {[status |-> st, text |-> "error page", found |-> FALSE, file_id |-> NONE] :
        st \in ErrorStatuses}
    \cup {[status |-> HttpOk, text |-> "envelope", found |-> FALSE, file_id |-> NONE]}
    \cup {[status |-> HttpOk, text |-> "envelope", found |-> TRUE, file_id |-> f] :
            f \in FileIds \cup {NONE}}

\* answers to downloadReportDataChunk: an HTTP error, a body that lacks
\* reportDataChunk or reportDataOffset, or a chunk with an offset
DownloadResponses ==
    {[status |-> st, text |-> "error page", found |-> FALSE, bytes |-> <<>>,
      chunk |-> <<>>, offset |-> EndOfData] : st \in ErrorStatuses}
    \cup {[status |-> HttpOk, text |-> "envelope", found |-> FALSE, bytes |-> <<>>,
           chunk |-> <<>>, offset |-> EndOfData]}
    \cup {[status |-> HttpOk, text |-> "envelope", found |-> TRUE, bytes |-> b,
           chunk |-> B64Encode(b), offset |-> o] : b \in Payloads, o \in Offsets}

\* the server ends the report, or fails, at the latest in its answer to download
\* request number MaxDownloads
Served(resp) ==
    (Len(requests) > MaxDownloads /\ resp.status = HttpOk /\ resp.found) =>
        resp.offset = EndOfData

\* the state of the token lifecycle managers
auth == <<now, kc, access_token, token_expiry, refresh_token, pc, ctx, lv,
          listener, auth_code, issued, ops, budget, h>>

\* _make_soap_request begins with self.auth.get_connection()
SoapBegin(next) ==
    /\ GetConnectionCall(ReportAuth)
    /\ rpc' = next
    /\ calls' = calls + 1
    /\ UNCHANGED <<ops, budget, partial_file>>

\* raise Exception("Failed to get OAuth access token")
TokenError ==
    [NoError EXCEPT !.type = "Exception", !.msg = "Failed to get OAuth access token"]
\* raise Exception(f"SOAP request failed with status {response.status}: {response_text}")
HttpError(resp) ==
    [NoError EXCEPT !.type = "Exception", !.msg = "SOAP request failed with status",
                    !.status = resp.status, !.body = resp.text]
\* raise Exception("Could not find reportFileID in response") and
\* raise Exception("Could not find reportDataChunk or reportDataOffset in response")
ParseError ==
    [NoError EXCEPT !.type = "Exception", !.msg = "Could not find"]
\* the UnicodeDecodeError of bytes.decode('utf-8')
DecodeError ==
    [NoError EXCEPT !.type = "UnicodeDecodeError", !.msg = "can't decode byte"]

\* "except Exception as e: Logger.log(..., partial_file=output_file); raise" of
\* get_report_data: the path is logged and e is raised again as it is
Fail(e) ==
    /\ rpc' = "raised"
    /\ raised' = e
    /\ partial_file' = OutputFile
    /\ UNCHANGED calls

\* mutant of StatusFails: only a server error counts as a failed request
StatusFailsServerOnly(status) == status >= 500

\* "if response.status != 200" of _make_soap_request
StatusFails(status) == status # HttpOk

\* get_report_data is called: the output path is chosen, the runReport envelope
\* built and _make_soap_request entered
GetReportData ==
    /\ rpc = "idle"
    /\ SoapBegin("run_token")
    /\ UNCHANGED <<file_id, begin_idx, first_chunk, total_rows, offset, fs,
                   requests, served, continued, raised, cons, answered, two>>

\* get_connection has returned to _make_soap_request: without a token it raises,
\* with one it posts the envelope with the token as bearer
SoapPost ==
    /\ rpc \in {"run_token", "dl_token"}
    /\ pc[ReportAuth] = "idle"
    /\ IF h[ReportAuth].ret = NONE
       THEN /\ Fail(TokenError)
            /\ UNCHANGED requests
       ELSE /\ requests' = Append(requests,
                 [op |-> IF rpc = "run_token" THEN "runReport"
                                              ELSE "downloadReportDataChunk",
                  beginIdx |-> begin_idx,
                  token |-> h[ReportAuth].ret])
            /\ rpc' = IF rpc = "run_token" THEN "run_wait" ELSE "dl_wait"
            /\ UNCHANGED <<raised, calls, partial_file>>
    /\ UNCHANGED <<auth, file_id, begin_idx, first_chunk, total_rows, offset, fs,
                   served, continued, cons, answered, two>>

\* the answer to runReport arrives: _make_soap_request checks the status,
\* _parse_run_report_response finds the file id, the loop variables are set and
\* the first download request is begun
RunReportResponse(resp) ==
    /\ rpc = "run_wait"
    /\ IF StatusFails(resp.status) \/ ~resp.found
       THEN /\ Fail(IF StatusFails(resp.status) THEN HttpError(resp) ELSE ParseError)
            /\ UNCHANGED <<auth, file_id, begin_idx, first_chunk, total_rows>>
       ELSE /\ file_id' = resp.file_id
            /\ begin_idx' = 0
            /\ total_rows' = 0
            /\ first_chunk' = TRUE
            /\ SoapBegin("dl_token")
            /\ UNCHANGED <<now, kc, mem, net, raised>>
    /\ UNCHANGED <<offset, fs, requests, served, continued, cons, answered, two>>

\* mutant of Write: in append mode the text is put before the content
WritePrepends(mode, text) ==
    [x \in {OutputFile} |->
        IF mode = "w" \/ OutputFile \notin DOMAIN fs THEN text
        ELSE text \o fs[OutputFile]]

\* open(output_file, mode).write(text): 'w' creates or truncates, 'a' appends
Write(mode, text) ==
    [x \in {OutputFile} |->
        IF mode = "w" \/ OutputFile \notin DOMAIN fs THEN text
        ELSE fs[OutputFile] \o text]

\* mutant of LoopEnds: the loop ends at every offset that is not positive
LoopEndsAtZero(o) == o <= 0

\* "if offset == -1: break"
LoopEnds(o) == o = EndOfData

\* the answer to a download request arrives: status check, parse, then one turn
\* of the loop body: a chunk that is not empty is decoded, written and counted;
\* offset -1 ends the loop and output_file is returned, any other offset advances
\* begin_idx and begins the next request
DownloadResponse(resp) ==
    /\ rpc = "dl_wait"
    /\ Served(resp)
    /\ IF StatusFails(resp.status) \/ ~resp.found
       THEN /\ Fail(IF StatusFails(resp.status) THEN HttpError(resp) ELSE ParseError)
            /\ UNCHANGED <<auth, begin_idx, first_chunk, total_rows, offset, fs,
                           served, continued>>
       ELSE IF resp.chunk # <<>> /\ ~Utf8Ok(B64Decode(resp.chunk))
       THEN /\ Fail(DecodeError)
            /\ offset' = resp.offset
            /\ served' = served \o resp.bytes
            /\ UNCHANGED <<auth, begin_idx, first_chunk, total_rows, fs, continued>>
       ELSE LET chunk_data == resp.chunk
                decoded_data == Utf8Decode(B64Decode(chunk_data))
            IN  /\ offset' = resp.offset
                /\ served' = served \o resp.bytes
                /\ IF chunk_data # <<>>
                   THEN /\ fs' = Write(IF first_chunk THEN "w" ELSE "a", decoded_data)
                        /\ total_rows' = total_rows + ChunkLines(decoded_data)
                        /\ first_chunk' = FALSE
                   ELSE UNCHANGED <<fs, total_rows, first_chunk>>
                /\ continued' = IF resp.offset = EndOfData THEN continued
                                 ELSE continued + 1
                /\ IF LoopEnds(resp.offset)
                   THEN /\ rpc' = "returned"
                        /\ UNCHANGED <<auth, begin_idx, raised, calls, partial_file>>
                   ELSE /\ begin_idx' = begin_idx + ChunkSize
                        /\ SoapBegin("dl_token")
                        /\ UNCHANGED <<now, kc, mem, net, raised>>
    /\ UNCHANGED <<file_id, requests, cons, answered, two>>

\* one get_report_data invocation, with the token lifecycle manager of the
\* report service and the authorization callback
NextReport ==
    \/ GetReportData
    \/ SoapPost
    \/ \E resp \in RunResponses : RunReportResponse(resp)
    \/ \E resp \in DownloadResponses : DownloadResponse(resp)
    \/ LoadToken(ReportAuth)
    \/ LoadExpiryStr(ReportAuth)
    \/ LoadRefresh(ReportAuth)
    \/ RefreshPost(ReportAuth)
    \/ SaveToken(ReportAuth)
    \/ SaveExpiry(ReportAuth)
    \/ SaveRefresh(ReportAuth)
    \/ ClearToken(ReportAuth)
    \/ ClearExpiry(ReportAuth)
    \/ ClearRefresh(ReportAuth)
    \/ AuthBind(ReportAuth)
    \/ AuthReset(ReportAuth)
    \/ Poll(ReportAuth)
    \/ GetTokenPost(ReportAuth)
    \/ \E q \in GetRequests : DoGet(q)
    \/ Tick

\* no consumer but the report pipeline calls the managers
InitReport == InitState /\ budget = 0
SpecReport == InitReport /\ [][NextReport]_vars

\* ---------------------------------------------------- REST service routines
\* the routines that put get_connection()'s result into an Authorization header:
\* get_oauth_headers, _get_auth_header of the location and order services,
\* _get_headers of the setup import and export services, and the header of
\* migrate_locations_to_target_instance
Consumers == {"get_oauth_headers", "fetch_all_locations", "order_request",
              "start_import", "start_export", "migrate_locations"}

\* the routines whose code has "if not token: raise Exception(...)"
Checks(c) == c \in {"get_oauth_headers", "fetch_all_locations", "order_request",
                    "start_import"}

\* the routines that construct their OracleAuth at the call
Constructs(c) == c \in {"start_export", "migrate_locations"}

\* the OracleAuth instance of the routine that a run follows
ConsumerAuth == "singleton"

\* f"Bearer {token}": None is formatted as the text "None"
Bearer(token) ==
    IF token = NONE THEN <<"Bearer", "None">> ELSE <<"Bearer", "token", token>>

\* OracleAuth() followed by get_connection(): the new instance holds no token,
\* so load_from_keychain begins
NewAuthGetConnection(m) ==
    /\ pc[m] = "idle"
    /\ access_token' = [access_token EXCEPT ![m] = NONE]
    /\ token_expiry' = [token_expiry EXCEPT ![m] = NONE]
    /\ refresh_token' = [refresh_token EXCEPT ![m] = NONE]
    /\ h' = [h EXCEPT ![m] = [NoHistory EXCEPT
                 !.op = "get_connection", !.state = "running",
                 !.tried = <<"memory", "store">>]]
    /\ pc' = [pc EXCEPT ![m] = "ld_tok"]
    /\ ctx' = [ctx EXCEPT ![m] = "get_connection"]
    /\ UNCHANGED <<now, kc, net, lv>>

\* the routine c is called and asks for a token; a run follows one routine
ConsumerCall(c) ==
    /\ consumer = "none"
    /\ \A i \in 1..Len(sent) : sent[i].by = c
    /\ \A i \in 1..Len(reported) : reported[i].by = c
    /\ ops < budget
    /\ ops' = ops + 1
    /\ IF Constructs(c) THEN NewAuthGetConnection(ConsumerAuth)
                        ELSE GetConnectionCall(ConsumerAuth)
    /\ consumer' = c
    /\ UNCHANGED <<budget, pipeline, sent, reported, answered, two>>

\* get_connection has returned to the routine: a routine that checks the token
\* raises when there is none; otherwise the header is built and the request sent
ConsumerSend ==
    /\ consumer # "none"
    /\ pc[ConsumerAuth] = "idle"
    /\ LET token == h[ConsumerAuth].ret
       IN  IF Checks(consumer) /\ token = NONE
           THEN /\ reported' = Append(reported,
                      [by |-> consumer, type |-> "Exception",
                       msg |-> "Failed to get OAuth access token"])
                /\ UNCHANGED sent
           ELSE /\ sent' = Append(sent,
                      [by |-> consumer, Authorization |-> Bearer(token)])
                /\ UNCHANGED reported
    /\ consumer' = "none"
    /\ UNCHANGED <<auth, pipeline, answered, two>>

\* the calls of one service routine, with its token lifecycle manager and the
\* authorization callback
NextConsumers ==
    \/ \E c \in Consumers : ConsumerCall(c)
    \/ ConsumerSend
    \/ LoadToken(ConsumerAuth)
    \/ LoadExpiryStr(ConsumerAuth)
    \/ LoadRefresh(ConsumerAuth)
    \/ RefreshPost(ConsumerAuth)
    \/ SaveToken(ConsumerAuth)
    \/ SaveExpiry(ConsumerAuth)
    \/ SaveRefresh(ConsumerAuth)
    \/ ClearToken(ConsumerAuth)
    \/ ClearExpiry(ConsumerAuth)
    \/ ClearRefresh(ConsumerAuth)
    \/ AuthBind(ConsumerAuth)
    \/ AuthReset(ConsumerAuth)
    \/ Poll(ConsumerAuth)
    \/ GetTokenPost(ConsumerAuth)
    \/ \E q \in GetRequests : DoGet(q)
    \/ Tick

SpecConsumers == Init /\ [][NextConsumers]_vars

\* ------------------------------------------------ two concurrent report runs
\* Two get_report_data coroutines of one OracleReportService run on one event
\* loop: a coroutine runs without interruption from one "await" of
\* _make_soap_request to the next, so a step is the code between two awaits.

\* download requests of one coroutine: the server ends the report at the latest
\* in its answer to request number MaxTwoDownloads
MaxTwoDownloads == 2

\* values of str(uuid.uuid4())[:8]
UniqueIds == {"1f0e9c2b", "77aa0b3d"}

\* os.path.join(downloads_dir, f"{report_name}_{timestamp}_{unique_id}.csv") for
\* the same report: the timestamp has the second of the call
OutputPath(u) == <<"report", now, u>>

\* report file ids the server hands out to the two runs
TwoFileIds == {7, 8}

\* byte strings of one chunk: nothing, "a", "b\n"
TwoPayloads == {<<>>, <<97>>, <<98, 10>>}

\* answers to runReport: an HTTP error or a file id
TwoRunResponses ==
    {[status |-> 500, text |-> "error page", found |-> FALSE, file_id |-> NONE]}
    \cup {[status |-> HttpOk, text |-> "envelope", found |-> TRUE, file_id |-> f] :
            f \in TwoFileIds}

\* answers to downloadReportDataChunk: an HTTP error or a chunk with an offset
TwoDownloadResponses ==
    {[status |-> 500, text |-> "error page", found |-> FALSE, bytes |-> <<>>,
      chunk |-> <<>>, offset |-> EndOfData]}
    \cup {[status |-> HttpOk, text |-> "envelope", found |-> TRUE, bytes |-> b,
           chunk |-> B64Encode(b), offset |-> o] :
            b \in TwoPayloads, o \in {EndOfData, ChunkSize}}

\* self.auth.get_connection() of _make_soap_request while the instance holds a
\* valid token: the call returns it at once
TwoSoap ==
    /\ MemValid(ReportAuth)
    /\ GetConnectionCall(ReportAuth)
    /\ UNCHANGED <<ops, budget>>

\* open(path, mode).write(text) in the shared downloads directory
WriteTo(path, mode, text) ==
    [x \in DOMAIN files \cup {path} |->
        IF x # path THEN files[x]
        ELSE IF mode = "w" \/ path \notin DOMAIN files THEN text
        ELSE files[path] \o text]

\* the uuid u has not been drawn before (uuid4 draws 122 random bits)
Fresh(u) == \A j \in Invs : runs[j].output_file # OutputPath(u)

\* coroutine i begins: the output path is chosen and the runReport request sent
RunStart(i, u) ==
    /\ runs[i].at = "idle"
    /\ Fresh(u)
    /\ TwoSoap
    /\ runs' = [runs EXCEPT ![i] = [NoRun EXCEPT !.at = "run_wait",
                                                 !.output_file = OutputPath(u)]]
    /\ UNCHANGED <<files, pipeline, cons, answered>>

\* coroutine i resumes with the answer to runReport: the file id is parsed, the
\* loop variables set and the first download request sent
RunFileId(i, resp) ==
    /\ runs[i].at = "run_wait"
    /\ IF StatusFails(resp.status) \/ ~resp.found
       THEN /\ runs' = [runs EXCEPT ![i].at = "raised"]
            /\ UNCHANGED auth
       ELSE /\ TwoSoap
            /\ runs' = [runs EXCEPT ![i] = [@ EXCEPT
                           !.at = "dl_wait",
                           !.file_id = resp.file_id,
                           !.begin_idx = 0,
                           !.total_rows = 0,
                           !.first_chunk = TRUE,
                           !.sent = <<[fileID |-> resp.file_id, beginIdx |-> 0]>>]]
    /\ UNCHANGED <<files, pipeline, cons, answered>>

\* coroutine i resumes with the answer to a download request: one turn of the
\* loop body, then the return or the next download request
RunChunk(i, resp) ==
    /\ runs[i].at = "dl_wait"
    /\ (Len(runs[i].sent) >= MaxTwoDownloads /\ resp.found) => resp.offset = EndOfData
    /\ IF StatusFails(resp.status) \/ ~resp.found
       THEN /\ runs' = [runs EXCEPT ![i].at = "raised"]
            /\ UNCHANGED <<auth, files>>
       ELSE IF resp.chunk # <<>> /\ ~Utf8Ok(B64Decode(resp.chunk))
       THEN /\ runs' = [runs EXCEPT ![i].at = "raised", ![i].got = @ \o resp.bytes]
            /\ UNCHANGED <<auth, files>>
       ELSE LET r == runs[i]
                decoded_data == Utf8Decode(B64Decode(resp.chunk))
                written == resp.chunk # <<>>
                ends == LoopEnds(resp.offset)
            IN  /\ files' = IF written
                            THEN WriteTo(r.output_file,
                                         IF r.first_chunk THEN "w" ELSE "a",
                                         decoded_data)
                            ELSE files
                /\ runs' = [runs EXCEPT ![i] = [r EXCEPT
                      !.got = @ \o resp.bytes,
                      !.total_rows = IF written THEN @ + ChunkLines(decoded_data) ELSE @,
                      !.first_chunk = IF written THEN FALSE ELSE @,
                      !.at = IF ends THEN "returned" ELSE "dl_wait",
                      !.begin_idx = IF ends THEN @ ELSE @ + ChunkSize,
                      !.sent = IF ends THEN @
                               ELSE Append(@, [fileID |-> r.file_id,
                                               beginIdx |-> r.begin_idx + ChunkSize])]]
                /\ IF ends THEN UNCHANGED auth ELSE TwoSoap
    /\ UNCHANGED <<pipeline, cons, answered>>

NextTwo ==
    \/ \E i \in Invs, u \in UniqueIds : RunStart(i, u)
    \/ \E i \in Invs, resp \in TwoRunResponses : RunFileId(i, resp)
    \/ \E i \in Invs, resp \in TwoDownloadResponses : RunChunk(i, resp)

\* the report service after an earlier authorization: its OracleAuth holds a
\* token that stays valid, and the keychain holds what that authorization saved
\* a process whose report service holds a token that stays valid, and the
\* refresh token that came with it, in the instance and in the keychain
HeldState ==
    /\ now = 0
    /\ kc = [x \in {K_TOKEN, K_EXPIRY, K_REFRESH} |->
                IF x = K_EXPIRY THEN Str(MaxTime + Margin + TimeStep) ELSE 1]
    /\ access_token = [m \in Mgrs |-> IF m = ReportAuth THEN 1 ELSE NONE]
    /\ token_expiry = [m \in Mgrs |-> IF m = ReportAuth
                                      THEN MaxTime + Margin + TimeStep ELSE NONE]
    /\ refresh_token = [m \in Mgrs |-> IF m = ReportAuth THEN 1 ELSE NONE]
    /\ pc = [m \in Mgrs |-> "idle"]
    /\ ctx = [m \in Mgrs |-> "none"]
    /\ lv = [m \in Mgrs |-> NoLocals]
    /\ listener = "free"
    /\ auth_code = NONE
    /\ issued = 1
    /\ ops = 0
    /\ h = [m \in Mgrs |-> NoHistory]
    /\ rpc = "idle"
    /\ file_id = NONE
    /\ begin_idx = 0
    /\ first_chunk = TRUE
    /\ total_rows = 0
    /\ offset = 0
    /\ fs = [x \in {} |-> <<>>]
    /\ requests = <<>>
    /\ served = <<>>
    /\ continued = 0
    /\ raised = NoError
    /\ calls = 0
    /\ partial_file = ""
    /\ consumer = "none"
    /\ sent = <<>>
    /\ reported = <<>>
    /\ answered = NONE
    /\ runs = [i \in Invs |-> NoRun]
    /\ files = [x \in {} |-> <<>>]

InitTwo == HeldState /\ budget = 0

SpecTwo == InitTwo /\ [][NextTwo]_vars

\* the managers of a process in which a token is held already
InitHeld == HeldState /\ budget = MaxOps
SpecHeld == InitHeld /\ [][Next]_vars

\* ------------------------------------------------- failing credential store
\* what load_from_keychain returns from its except clause
NothingLoaded == [token |-> NONE, expiry |-> NONE, refresh_token |-> NONE]

\* a keyring.get_password call of load_from_keychain raises (no backend, locked
\* keychain): the except clause logs it and returns None, None, None to the
\* caller, which goes on as after any load
LoadFails(m) ==
    /\ pc[m] \in LoadLocs
    /\ IF ctx[m] = "get_connection"
       THEN StoreCheck(m, NothingLoaded)
       ELSE RefreshLoaded(m, NothingLoaded)
    /\ UNCHANGED <<now, kc, net, ops, budget, rep>>

\* mutant of SaveFails: the error of the keyring call leaves save_to_keychain
\* and the operation that called it
SaveFailsRaises(m) ==
    /\ pc[m] \in SaveLocs
    /\ Finish(m)
    /\ h' = [h EXCEPT ![m].state = "raised", ![m].ret = NONE, ![m].err = "keyring"]
    /\ UNCHANGED <<now, kc, mem, net, ops, budget, rep>>

\* a keyring.set_password call of save_to_keychain raises: the except clause
\* logs it, the entries written before it stay, and the caller returns the
\* access token it holds
SaveFails(m) ==
    /\ pc[m] \in SaveLocs
    /\ kc' = kc
    /\ FinishWrite(m)
    /\ h' = [h EXCEPT ![m].state = "returned", ![m].ret = access_token[m]]
    /\ UNCHANGED <<now, mem, net, ops, budget, rep>>

\* a keyring.delete_password call of clear_keychain raises for another reason
\* than an absent entry: the except clause logs it and the function is left
ClearFails(m) ==
    /\ pc[m] \in ClearLocs
    /\ kc' = kc
    /\ ClearDone(m, FALSE)
    /\ UNCHANGED <<now, mem, net, ops, budget, rep>>

NextStore ==
    \/ Next
    \/ \E m \in Mgrs :
          \/ LoadFails(m)
          \/ SaveFails(m)
          \/ ClearFails(m)

\* the managers over a credential store whose calls can fail
SpecStore == Init /\ [][NextStore]_vars

\* ------------------------------------------------- the chunk loop on its own
\* one get_report_data invocation whose manager holds a token that stays valid
\* (the state InitTwo describes), so that every get_connection call returns it
\* from the instance
NextLoop ==
    \/ GetReportData
    \/ SoapPost
    \/ \E resp \in RunResponses : RunReportResponse(resp)
    \/ \E resp \in DownloadResponses : DownloadResponse(resp)
    \/ Tick

\* the event loop runs the coroutine whenever it can go on, and every request
\* that was sent is answered
SpecLoop == InitTwo /\ [][NextLoop]_vars /\ WF_vars(NextLoop)

\* ==================================================================== claims
\* the order in which get_connection consults its sources
Order == <<"memory", "store", "refresh", "auth">>

\* a credential is usable only while now < expiry - margin
Usable(tok, exp) == tok # NONE /\ exp # NONE /\ now < exp - Margin

\* this step is a return of get_connection by m with a token
ReturnsToken(m) ==
    /\ h'[m].op = "get_connection"
    /\ h'[m].state = "returned"
    /\ h'[m].ret # NONE
    /\ \/ h[m].state = "running"
       \/ GetConnection(m)

\* C1: whenever get_connection returns a token, that token is usable for at
\* least 300 more seconds at the moment of return: now < expiry - 300, on every
\* path and for every token-endpoint response.
C1_ReturnedTokenUsable ==
    [][\A m \in Mgrs : ReturnsToken(m) =>
          /\ token_expiry'[m] # NONE
          /\ now' < token_expiry'[m] - Margin]_vars

\* the token and expiry load_from_keychain hands to get_connection, given the
\* strings m has read, are a usable credential
LoadedUsable(m) ==
    /\ lv[m].token # NONE
    /\ FloatOk(lv[m].expiry_str)
    /\ now < Float(lv[m].expiry_str) - Margin

\* this step ends get_connection's look at the keychain record it loaded
StoreDecision(m) ==
    /\ pc[m] = "ld_rt"
    /\ ctx[m] = "get_connection"
    /\ pc'[m] # "ld_rt"

\* C2: get_connection tries in-memory token, keychain token, refresh and full
\* authorization strictly in this order and stops at the first source that
\* yields a token: the keychain is read only if the in-memory token is absent or
\* near expiry, refresh is entered only if the keychain token is absent or near
\* expiry too, the listener flow is started only if refresh yielded no token,
\* and an accepted keychain token is promoted to memory (token and expiry)
\* before it is returned.
C2_SourceOrder ==
    /\ [](\A m \in Mgrs :
            /\ h[m].op = "get_connection" =>
                  \E n \in 1..4 : h[m].tried = SubSeq(Order, 1, n)
            /\ h[m].path # "none" =>
                  h[m].tried[Len(h[m].tried)] = h[m].path
            /\ (h[m].state = "returned" /\ h[m].ret # NONE) => h[m].path # "none"
            /\ pc[m] \in LoadLocs => ~Usable(access_token[m], token_expiry[m])
            /\ pc[m] = "rf_post" => h[m].tried = SubSeq(Order, 1, 3)
            /\ pc[m] \in AuthLocs => (h[m].tried = Order /\ h[m].path = "none"))
    /\ [][\A m \in Mgrs :
            /\ (StoreDecision(m) /\ h'[m].tried # h[m].tried) => ~LoadedUsable(m)
            /\ (StoreDecision(m) /\ LoadedUsable(m)) =>
                  /\ h'[m].state = "returned"
                  /\ h'[m].path = "store"
                  /\ h'[m].ret = lv[m].token
                  /\ access_token'[m] = lv[m].token
                  /\ token_expiry'[m] = Float(lv[m].expiry_str)]_vars

\* a keychain token has been accepted, promoted and returned
C2_Witness ==
    \E m \in Mgrs :
        /\ h[m].state = "returned"
        /\ h[m].path = "store"
        /\ h[m].tried = SubSeq(Order, 1, 2)
        /\ access_token[m] = h[m].ret
        /\ h[m].ret # NONE

\* m holds, in memory, the token its last get_connection returned, and that
\* token is not within 300 seconds of its expiry
Cached(m) ==
    /\ h[m].op = "get_connection"
    /\ h[m].state = "returned"
    /\ h[m].ret # NONE
    /\ access_token[m] = h[m].ret
    /\ Usable(access_token[m], token_expiry[m])

\* C3: after get_connection has obtained a token, a second call on the same
\* manager made before the token comes within 300 seconds of its expiry returns
\* the same token at once: no token-endpoint request, no authorization flow, no
\* keychain access.
C3_Caching ==
    [][\A m \in Mgrs : (GetConnection(m) /\ Cached(m)) =>
          /\ pc'[m] = "idle"
          /\ h'[m].state = "returned"
          /\ h'[m].ret = access_token[m]
          /\ h'[m].tried = <<"memory">>
          /\ issued' = issued
          /\ listener' = listener
          /\ kc' = kc]_vars

\* a second call has been answered from memory
C3_Witness ==
    \E m \in Mgrs :
        /\ h[m].state = "returned"
        /\ h[m].path = "memory"
        /\ h[m].ret = access_token[m]
        /\ ops = 2
        /\ issued = 1

\* C4: the 300-second margin is applied in every expiry comparison: a token in
\* memory, or loaded from the keychain, whose expiry is at or before now + 300
\* is not returned; the call goes on (to the keychain, then to refresh or full
\* authorization).
C4_MarginEverywhere ==
    [][\A m \in Mgrs :
          /\ (GetConnection(m) /\ token_expiry[m] <= now + Margin) =>
                (h'[m].state = "running" /\ pc'[m] = "ld_tok")
          /\ (StoreDecision(m) /\ FloatOk(lv[m].expiry_str)
                /\ Float(lv[m].expiry_str) <= now + Margin) =>
                /\ h'[m].state = "running"
                /\ h'[m].path = "none"
                /\ h'[m].tried = SubSeq(Order, 1, 3)
                /\ access_token'[m] = access_token[m]]_vars

\* a call has gone on to refresh past a keychain token that expires in the
\* future but inside the margin
C4_Witness ==
    \E m \in Mgrs :
        /\ pc[m] = "rf_post"
        /\ K_TOKEN \in DOMAIN kc
        /\ K_EXPIRY \in DOMAIN kc
        /\ FloatOk(kc[K_EXPIRY])
        /\ now < Float(kc[K_EXPIRY])
        /\ Float(kc[K_EXPIRY]) <= now + Margin

\* this step ends the clear_keychain that caller called on m, with no write to
\* the keychain by another manager since it began and every other manager idle
ClearEnds(m, caller) ==
    /\ pc[m] \in ClearLocs
    /\ ctx[m] = caller
    /\ pc'[m] \notin ClearLocs
    /\ ~h'[m].interfered
    /\ \A x \in Mgrs \ {m} : pc[x] = "idle"

\* after this step the in-memory credentials of m are absent
MemoryCleared(m) ==
    /\ access_token'[m] = NONE
    /\ token_expiry'[m] = NONE
    /\ refresh_token'[m] = NONE

\* what a load_from_keychain made right after this step returns
LoadedAfter ==
    Loaded(IF K_TOKEN \in DOMAIN kc' THEN kc'[K_TOKEN] ELSE NONE,
           IF K_EXPIRY \in DOMAIN kc' THEN kc'[K_EXPIRY] ELSE <<>>,
           IF K_REFRESH \in DOMAIN kc' THEN kc'[K_REFRESH] ELSE NONE)

\* C5: when a refresh attempt fails, all credentials are cleared: in-memory
\* token, expiry and refresh token are absent and a subsequent load from the
\* keychain returns no token, no expiry and no refresh token, whatever entries
\* the keychain held before.
C5_RefreshFailureClears ==
    [][\A m \in Mgrs : ClearEnds(m, "refresh") =>
          /\ MemoryCleared(m)
          /\ LoadedAfter = [token |-> NONE, expiry |-> NONE, refresh_token |-> NONE]]_vars

\* C6 (as stated): when the full authorization flow fails, get_connection
\* propagates the failure to its caller as a raised error.
C6_FailurePropagates ==
    \A m \in Mgrs :
        (h[m].op = "get_connection" /\ h[m].err # "none") => h[m].state = "raised"

\* C6 (amended): when the full authorization flow fails (bind error, timeout of
\* the callback wait, error from the code exchange), get_connection catches the
\* error and completes with a normal return of None.
C6_FailureReturnsNone ==
    \A m \in Mgrs :
        (h[m].op = "get_connection" /\ h[m].err # "none") =>
            /\ h[m].state = "returned"
            /\ h[m].ret = NONE
            /\ h[m].tried = Order
            /\ pc[m] = "idle"

\* the callback wait has timed out and the call has ended
C6_Witness ==
    \E m \in Mgrs : h[m].err = "timeout" /\ h[m].state = "returned" /\ now > AuthTimeout

\* C7: a failure during refresh never propagates out of get_connection and
\* never ends the call: once clear_keychain has been left the full authorization
\* flow is attempted. get_connection yields None only after memory, keychain and
\* refresh have yielded no token and a full authorization attempt has failed.
C7_RefreshFailureFallsThrough ==
    /\ [](\A m \in Mgrs :
            /\ h[m].state # "raised"
            /\ (h[m].refresh = "failed" /\ pc[m] \notin ClearLocs) => h[m].tried = Order
            /\ (h[m].op = "get_connection" /\ h[m].state = "returned" /\ h[m].ret = NONE) =>
                  (h[m].tried = Order /\ h[m].err # "none" /\ h[m].path = "none"))
    /\ [][\A m \in Mgrs :
            /\ (pc[m] = "rf_post" /\ h'[m].refresh = "failed") =>
                  (h'[m].state = "running" /\ pc'[m] = "cl_tok")
            /\ (pc[m] \in ClearLocs /\ ctx[m] = "refresh" /\ pc'[m] \notin ClearLocs) =>
                  (h'[m].state = "running" /\ pc'[m] = "auth_bind")]_vars

\* the refresh request failed, the full flow was attempted and failed, and only
\* then did the call yield None
C7_Witness ==
    \E m \in Mgrs :
        /\ h[m].refresh = "failed"
        /\ h[m].state = "returned"
        /\ h[m].ret = NONE
        /\ h[m].err = "http"

\* C8: close_connection clears the in-memory access token, expiry and refresh
\* token and empties the keychain, from any prior state.
C8_CloseClears ==
    [][\A m \in Mgrs : ClearEnds(m, "close") =>
          (MemoryCleared(m) /\ kc' = EmptyKeychain)]_vars

\* ------------------------------------------------------------------ report
\* the download requests sent so far
Downloads == SelectSeq(requests, LAMBDA r : r.op = "downloadReportDataChunk")

\* C9: on a normal return of get_report_data the returned path names a file
\* that exists, and its content is exactly the in-order concatenation of the
\* decoded chunks of every download response received, for every chunk sequence
\* the server can send, a report whose every chunk is empty included.
C9_FileIsConcatenation ==
    rpc = "returned" =>
        /\ OutputFile \in DOMAIN fs
        /\ fs[OutputFile] = Utf8Decode(served)

\* C10: the begin offset of the (k+1)-th download request is 5000 * k, whatever
\* offsets the server returns; the loop stops exactly when a response carries
\* offset -1: after k responses with another offset and one with -1, exactly
\* k + 1 download requests have been sent, and none is sent after the return.
C10_OffsetsAndStop ==
    /\ [](/\ \A i \in 1..Len(Downloads) : Downloads[i].beginIdx = ChunkSize * (i - 1)
          /\ Len(Downloads) <= continued + 1
          /\ rpc = "returned" => (offset = EndOfData /\ Len(Downloads) = continued + 1)
          /\ rpc \in {"dl_token", "dl_wait"} => Len(Downloads) >= continued)
    /\ [][/\ rpc = "returned" => (rpc' = "returned" /\ requests' = requests)
          /\ (rpc = "dl_wait" /\ raised' = NoError /\ offset' = EndOfData) =>
                rpc' = "returned"
          /\ (rpc = "dl_wait" /\ rpc' = "dl_token") =>
                (offset' # EndOfData /\ begin_idx' = begin_idx + ChunkSize)]_vars

\* the server has answered two download requests with offsets other than -1 and
\* the third with -1, and get_report_data has returned after three requests
C10_Witness ==
    /\ rpc = "returned"
    /\ continued = 2
    /\ Len(Downloads) = 3
    /\ Downloads[3].beginIdx = 2 * ChunkSize

\* this step ends the invocation with the error of a failed SOAP call: the
\* exception carries the status and the body of resp, nothing more is sent
HttpAbort(resp) ==
    /\ rpc' = "raised"
    /\ raised'.msg = "SOAP request failed with status"
    /\ raised'.status = resp.status
    /\ raised'.body = resp.text
    /\ requests' = requests
    /\ calls' = calls

\* C11: if a SOAP response (runReport or any chunk download) has a non-success
\* HTTP status, get_report_data raises an error carrying the status and the
\* body, sends no further SOAP request in the invocation and returns no output
\* path.
C11_HttpErrorAborts ==
    [][/\ \A resp \in RunResponses :
             (RunReportResponse(resp) /\ resp.status \in ErrorStatuses) => HttpAbort(resp)
       /\ \A resp \in DownloadResponses :
             (DownloadResponse(resp) /\ resp.status \in ErrorStatuses) => HttpAbort(resp)
       /\ rpc = "raised" =>
             (rpc' = "raised" /\ requests' = requests /\ calls' = calls /\ raised' = raised)]_vars

\* the third SOAP request of an invocation was answered with status 404 after a
\* chunk had been written, and get_report_data has raised
C11_Witness ==
    /\ rpc = "raised"
    /\ raised.status = 404
    /\ raised.body = "error page"
    /\ Len(requests) = 3
    /\ OutputFile \in DOMAIN fs

\* this step is the failure of a download request after a chunk was written
DownloadFails(resp) ==
    /\ DownloadResponse(resp)
    /\ rpc' = "raised"
    /\ OutputFile \in DOMAIN fs

\* C12: a failed chunk download is never retried and nothing is cleaned up: when
\* a download request fails after earlier chunks were written, the request is
\* not sent again, the output file stays in place holding exactly the chunks
\* written before the failure, and the error that reaches the caller of
\* get_report_data refers to the path of that partial file.
C12_PartialFileKeptAndNamed ==
    [][/\ \A resp \in DownloadResponses : DownloadFails(resp) =>
             /\ requests' = requests
             /\ fs' = fs
             /\ fs[OutputFile] = Utf8Decode(served)
             /\ raised'.path = OutputFile
       /\ rpc = "raised" => (rpc' = "raised" /\ requests' = requests /\ fs' = fs)]_vars

\* this step ends the invocation with a structural error, which its message
\* tells apart from the error of a failed SOAP call, and sends nothing
StructuralAbort ==
    /\ rpc' = "raised"
    /\ raised'.msg = "Could not find"
    /\ raised'.msg # "SOAP request failed with status"
    /\ requests' = requests

\* C13: if a SOAP response with success status does not yield the expected data
\* (no report file id in the runReport response, no chunk or no offset in a
\* download response), get_report_data raises a structural error that differs
\* from an HTTP status error; no download request is ever sent unless a report
\* file id was extracted from the runReport response.
C13_StructuralError ==
    /\ [](\A i \in 1..Len(requests) :
             requests[i].op = "downloadReportDataChunk" => file_id # NONE)
    /\ [][/\ \A resp \in RunResponses :
                (/\ RunReportResponse(resp)
                 /\ resp.status = HttpOk
                 /\ (~resp.found \/ resp.file_id = NONE)) => StructuralAbort
          /\ \A resp \in DownloadResponses :
                (DownloadResponse(resp) /\ resp.status = HttpOk /\ ~resp.found) =>
                    StructuralAbort]_vars

\* C15: whenever get_connection yields no token, every consumer of the token
\* raises an error to its caller and sends nothing: no request of a service
\* routine or of the report pipeline carries a header built from an absent
\* token, and a routine that received no token reports exactly one error
C15_NoSilentDegradation ==
    /\ [](\A i \in 1..Len(sent) : sent[i].Authorization # Bearer(NONE))
    /\ [](\A i \in 1..Len(requests) : requests[i].token # NONE)
    /\ [][(consumer # "none" /\ consumer' = "none" /\ h[ConsumerAuth].ret = NONE)
            => (sent' = sent /\ Len(reported') = Len(reported) + 1)]_vars

\* C16: the token lifecycle manager is invoked once per report request: one
\* get_report_data invocation calls get_connection exactly once, whatever the
\* number of SOAP requests it sends, and all its requests carry that one token
C16_OneTokenCallPerReport ==
    /\ rpc # "idle" => calls = 1
    /\ \A i, j \in 1..Len(requests) : requests[i].token = requests[j].token

\* the callback wait of manager m ends with the timeout error and the listener
\* shut down
TimesOut(m) ==
    /\ pc'[m] = "idle"
    /\ h'[m].err = "timeout"
    /\ h'[m].ret = NONE
    /\ listener' = "free"
    /\ now' = now

\* the callback wait of manager m ends with the captured code
TakesCode(m) ==
    /\ pc'[m] = "gt_post"
    /\ lv'[m].auth_code = auth_code
    /\ listener' = "free"
    /\ now' = now

\* C14: the wait for the callback has a hard ceiling of 300 seconds: a poll at
\* which a code has been captured returns that code; a poll without a code more
\* than 300 seconds after the wait began shuts the listener down and ends with
\* the timeout error; any other poll sleeps, so the wait never continues past
\* the first poll after the ceiling
C14_WaitCeiling ==
    /\ [](\A m \in Mgrs : pc[m] = "auth_wait" =>
              now - lv[m].start_time <= AuthTimeout + TimeStep)
    /\ [][\A m \in Mgrs : Poll(m) =>
             IF auth_code # NONE THEN TakesCode(m)
             ELSE IF now - lv[m].start_time > AuthTimeout THEN TimesOut(m)
             ELSE pc'[m] = "auth_wait" /\ listener' = listener /\ now' > now]_vars

\* a wait has ended by timeout at the first poll after the ceiling
C14_Witness ==
    \E m \in Mgrs :
        /\ h[m].err = "timeout"
        /\ h[m].state = "returned"
        /\ pc[m] = "idle"
        /\ listener = "free"

\* what load_from_keychain returns when it reads the keychain content k whole
Record(k) ==
    Loaded(IF K_TOKEN \in DOMAIN k THEN k[K_TOKEN] ELSE NONE,
           IF K_EXPIRY \in DOMAIN k THEN k[K_EXPIRY] ELSE <<>>,
           IF K_REFRESH \in DOMAIN k THEN k[K_REFRESH] ELSE NONE)

\* the load of manager m, begun at a quiet moment, ends at a quiet moment
LoadEnds(m) ==
    /\ pc[m] = "ld_rt"
    /\ pc'[m] # "ld_rt"
    /\ lv[m].whole # {}
    /\ Quiet

\* the three values the load of manager m returns
LoadResult(m) == Loaded(lv[m].token, lv[m].expiry_str, GetPassword(K_REFRESH))

\* C17: saves and clears of the keychain are atomic for a concurrent load: a
\* load returns the whole content the keychain had before or after a write that
\* ran beside it, never the token of one save with the expiry of another
C17_WritesAtomicForLoads ==
    [][\A m \in Mgrs : LoadEnds(m) =>
          LoadResult(m) \in {Record(k) : k \in lv[m].whole}]_vars

\* C18: one authorization code is accepted per listener instance: once a GET
\* with a code has been captured, a later GET to the listener leaves the
\* captured code unchanged, so that the code the wait returns is the first one
\* captured
C18_OneCodePerListener ==
    [][\A q \in GetRequests :
          (DoGet(q) /\ auth_code # NONE) => auth_code' = auth_code]_vars

\* C19: every authorization session that started the listener ends with the
\* listener shut down by start_auth_server: the port is held only while its
\* owner is inside start_auth_server, whether that returns or raises, and a
\* request served by the listener never stops it
C19_ListenerStoppedAtEnd ==
    /\ [](\A m \in Mgrs : listener = m => pc[m] \in {"auth_reset", "auth_wait"})
    /\ [][\A q \in GetRequests : DoGet(q) => listener' = listener]_vars

\* the attempt of manager m to bind the port fails: its get_connection ends
\* without a token, and the captured code and the listener are as they were
BindFails(m) ==
    /\ pc'[m] = "idle"
    /\ h'[m].err = "bind"
    /\ h'[m].ret = NONE
    /\ lv'[m].auth_code = NONE
    /\ auth_code' = auth_code
    /\ listener' = listener

\* C20: at most one authorization session is active at a time: only the
\* instance whose listener holds the port is past the bind, and while the port
\* is held another full authorization fails at its bind without resetting or
\* reading the captured code
C20_OneSessionAtATime ==
    /\ [](\A m \in Mgrs : pc[m] \in {"auth_reset", "auth_wait"} => listener = m)
    /\ [][\A m \in Mgrs : (AuthBind(m) /\ listener # "free") => BindFails(m)]_vars

\* a second attempt has failed at the bind while the first session waits with
\* a captured code
C20_Witness ==
    \E m, x \in Mgrs :
        /\ x # m
        /\ listener = x
        /\ pc[x] = "auth_wait"
        /\ auth_code # NONE
        /\ pc[m] = "idle"
        /\ h[m].err = "bind"

\* the request q has a code parameter whose value is not blank
HasCode(q) == \E i \in 1..Len(q) : q[i] # NONE

\* the first value of a code parameter of q that is not blank
FirstCode(q) ==
    q[CHOOSE i \in 1..Len(q) : q[i] # NONE /\ \A j \in 1..(i - 1) : q[j] = NONE]

\* C21 as stated: the listener answers a GET that carries a code parameter with
\* 200 and stores that code; it answers a GET without a code parameter with 400
\* and leaves the captured code as it was
C21_CallbackAnswers ==
    [][\A q \in GetRequests : DoGet(q) =>
          IF q # <<>>
          THEN answered' = CallbackOk /\ auth_code' = Head(q)
          ELSE answered' = CallbackFailed /\ auth_code' = auth_code]_vars

\* C21 amended: the listener answers a GET with a code parameter whose value is
\* not blank with 200 and stores the first such value; it answers a GET with no
\* code parameter, or with blank ones only, with 400 and leaves the captured
\* code as it was
C21_CallbackAnswersNonBlank ==
    [][\A q \in GetRequests : DoGet(q) =>
          IF HasCode(q)
          THEN answered' = CallbackOk /\ auth_code' = FirstCode(q)
          ELSE answered' = CallbackFailed /\ auth_code' = auth_code]_vars

\* a request without a code was answered with 400 after a code had been captured
C21_Witness ==
    /\ listener # "free"
    /\ answered = CallbackFailed
    /\ auth_code # NONE

\* both coroutines have chosen their output path
BothBegun == \A i \in Invs : runs[i].at # "idle"

\* C22: two concurrent get_report_data invocations are independent: the
\* download requests of each carry its own file id and its own offsets 0, 5000,
\* ..., the two output paths differ, and the file of each invocation that has
\* returned is the concatenation of its own chunks
C22_RunsIndependent ==
    /\ \A i \in Invs : \A k \in 1..Len(runs[i].sent) :
          /\ runs[i].sent[k].fileID = runs[i].file_id
          /\ runs[i].sent[k].beginIdx = ChunkSize * (k - 1)
    /\ BothBegun => runs[1].output_file # runs[2].output_file
    /\ \A i \in Invs : runs[i].at = "returned" =>
          /\ runs[i].output_file \in DOMAIN files
          /\ files[runs[i].output_file] = Utf8Decode(runs[i].got)

\* a download request is sent in this step
SendsDownload ==
    /\ Len(requests') = Len(requests) + 1
    /\ requests'[Len(requests')].op = "downloadReportDataChunk"

\* every chunk the server has sent so far is in the output file, in the order
\* of the requests
AllWritten == served # <<>> => (OutputFile \in DOMAIN fs /\ fs[OutputFile] = Utf8Decode(served))

\* C23: the download request for chunk N+1 is sent only after the response for
\* chunk N has been parsed, decoded and written: at most one download request
\* is outstanding, and when a request is sent every earlier response has been
\* processed and its chunk is in the file, in the order of the offsets
C23_OneRequestAtATime ==
    /\ [](Len(Downloads) - continued \in {0, 1})
    /\ [][SendsDownload =>
             /\ Len(Downloads) = continued
             /\ AllWritten
             /\ begin_idx = ChunkSize * continued]_vars

\* the second download request is outstanding and the first chunk is in the file
C23_Witness ==
    /\ rpc = "dl_wait"
    /\ Len(Downloads) = 2
    /\ continued = 1
    /\ served # <<>>
    /\ AllWritten

\* save_to_keychain is left by m in this step
SaveLeft(m) == pc[m] \in SaveLocs /\ pc'[m] \notin SaveLocs

\* C24: a failure of a credential-store call is absorbed: no operation ends
\* with an exception; after a failed load get_connection goes on to the refresh
\* and refresh_access_token, finding no refresh token, to the full flow, with
\* the instance left as it was; a failed delete ends close_connection normally
\* or leads on to the full flow; and however save_to_keychain is left, the
\* token obtained from the endpoint is returned
C24_StoreFailuresAbsorbed ==
    /\ [](\A m \in Mgrs : h[m].state # "raised")
    /\ [][\A m \in Mgrs :
            /\ LoadFails(m) =>
                  /\ h'[m].state = "running"
                  /\ mem' = mem
                  /\ IF ctx[m] = "get_connection"
                     THEN /\ ctx'[m] = "refresh"
                          /\ h'[m].tried = Append(h[m].tried, "refresh")
                          /\ pc'[m] = IF refresh_token[m] # NONE THEN "rf_post" ELSE "ld_tok"
                     ELSE /\ pc'[m] = "auth_bind"
                          /\ h'[m].tried = Append(h[m].tried, "auth")
            /\ ClearFails(m) =>
                  IF ctx[m] = "close"
                  THEN h'[m].state = "returned" /\ pc'[m] = "idle"
                  ELSE h'[m].state = "running" /\ pc'[m] = "auth_bind"
            /\ SaveLeft(m) =>
                  /\ h'[m].state = "returned"
                  /\ h'[m].ret = access_token[m]
                  /\ h'[m].ret # NONE
                  /\ pc'[m] = "idle"]_vars

\* a token from the endpoint has been returned although nothing of it could be
\* saved, after a first load that failed
C24_Witness ==
    \E m \in Mgrs :
       /\ h[m].state = "returned"
       /\ h[m].path = "auth"
       /\ h[m].ret # NONE
       /\ kc = EmptyKeychain
       /\ \A x \in Mgrs \ {m} : h[x].op = "none"

\* what a load_from_keychain of the present keychain returns
StoredRecord == Loaded(GetPassword(K_TOKEN), GetExpiryStr, GetPassword(K_REFRESH))

\* m has just returned a token taken from the token endpoint, and no other
\* manager has touched the keychain
Acquired(m) ==
    /\ h[m].op = "get_connection"
    /\ h[m].state = "returned"
    /\ h[m].path \in {"refresh", "auth"}
    /\ h[m].ret # NONE
    /\ \A x \in Mgrs \ {m} : h[x].op = "none"

\* C25: after a successful token acquisition a load from the keychain returns
\* the access token just returned and its expiry, equal to the token and the
\* expiry of the instance, whichever fields the token response had
C25_RecordReplacedWhole ==
    \A m \in Mgrs :
       Acquired(m) =>
          /\ StoredRecord.token = h[m].ret
          /\ StoredRecord.token = access_token[m]
          /\ StoredRecord.expiry = token_expiry[m]

\* no SOAP call has failed: neither without a token nor with an error status
CallsSucceed ==
    rpc = "raised" => raised.msg \notin {TokenError.msg, HttpError([status |-> NONE, text |-> ""]).msg}

\* the terminal offset is the only normal exit, and a successful answer with
\* another offset is followed by the next download request
OnlyExit ==
    /\ [](rpc = "returned" => offset = EndOfData)
    /\ [][(rpc = "dl_wait" /\ rpc' \notin {"dl_wait", "raised"} /\ offset' # EndOfData)
             => (rpc' = "dl_token" /\ calls' = calls + 1
                 /\ begin_idx' = begin_idx + ChunkSize)]_vars

RefreshLoadEnds(m) ==
    /\ pc[m] = "ld_rt"
    /\ ctx[m] = "refresh"
    /\ pc'[m] # "ld_rt"
    /\ K_REFRESH \in DOMAIN kc

\* C27: when the keychain holds a refresh token and the instance has none,
\* refresh_access_token obtains the stored one and sends the refresh request
\* with it, whatever the expiry entry contains
C27_StoredRefreshReachable ==
    [][\A m \in Mgrs :
          RefreshLoadEnds(m) =>
             /\ pc'[m] = "rf_post"
             /\ lv'[m].refresh_token = kc[K_REFRESH]]_vars

\* C28: at completion the accumulated row count equals the number of non-blank
\* lines of the assembled output file, however the server split the data into
\* chunks
C28_RowCountMatchesFile ==
    (rpc = "returned" /\ OutputFile \in DOMAIN fs) =>
        total_rows = ChunkLines(fs[OutputFile])

\* get_connection of m returns a token in this step
ReturnsNow(m) ==
    /\ h'[m].op = "get_connection"
    /\ h'[m].state = "returned"
    /\ h'[m].ret # NONE
    /\ (h[m].state = "running" \/ GetConnection(m))

\* a close_connection has returned on x, and t was issued before it did
Invalidated(x, t) ==
    /\ h[x].op = "close_connection"
    /\ h[x].state = "returned"
    /\ t <= h[x].invalidated

\* C29: after close_connection has completed on one instance, no instance
\* returns a token that was invalidated by it unless the call has performed a
\* refresh or an authorization
C29_InvalidatedNotReturned ==
    [][\A m, x \in Mgrs :
          (ReturnsNow(m) /\ Invalidated(x, h'[m].ret)) =>
              h'[m].path \in {"refresh", "auth"}]_vars

\* the wait of m's session begins in this step
WaitBegins(m) == pc[m] # "auth_wait" /\ pc'[m] = "auth_wait"

\* start_auth_server of m returns a code in this step
CodeReturned(m) == pc[m] = "auth_wait" /\ pc'[m] = "gt_post"

====
